---- MODULE Spec2Model ----
(***************************************************************************)
(* Model of the data-jobs pipeline (src/production_pipeline.py): the text  *)
(* classifier, the two record extractors (scrape_glassdoor, scrape_indeed),*)
(* the sample generator and the collector scrape_jobs_smart.               *)
(*                                                                         *)
(* Python strings are TLA+ strings; Len, \o and SubSeq act on them         *)
(* character by character.                                                 *)
(***************************************************************************)
EXTENDS Integers, Sequences, FiniteSets, TLC

VARIABLES
    mode,        \* which entry point this behaviour exercises
    pc,          \* position inside the running function
    title,       \* classifier input: title
    location,    \* classifier input: location
    labels,      \* classifier output: the three derived labels
    page,        \* extractor input: what driver.find_elements returns
    category,    \* extractor input: the query category
    source,      \* extractor input: the adapter that is called
    jobs,        \* extractor output: the list returned by the adapter
    all_jobs,    \* collector: the run-level accumulator
    driver,      \* collector: "none" | "up" | "quit"
    pair,        \* collector: index of the next (source, category) pair
    fetches,     \* collector: pairs for which driver.get was issued, in order
    now,         \* wall clock, in seconds since the start of the run
    tickAt,      \* element index at which the clock ticks inside one batch
    result,      \* collector: returned list once pc = "done"
    analytics,   \* aggregator output / pipeline: the analytics dict
    env,         \* pipeline: which optional configuration is present
    steps,       \* pipeline: the steps entered so far, in order;
                 \* extractors: the find_elements calls made, in order;
                 \* collector: the driver.quit calls made
    contacts,    \* pipeline: external services called so far
    csv_file,    \* pipeline: TRUE once the CSV file is on disk
    snowflake_success,  \* pipeline: value returned by save_to_snowflake
    email_success,      \* pipeline: value returned by send_email_report
    outcome      \* pipeline: "running", "raised", or the returned boolean

pipe_vars == <<analytics, env, steps, contacts, csv_file, snowflake_success,
               email_success, outcome>>

vars == <<mode, pc, title, location, labels, page, category, source, jobs,
          all_jobs, driver, pair, fetches, now, tickAt, result, pipe_vars>>

----------------------------------------------------------------------------
(* Bounds of the model *)

MaxRecs == 3        \* an aggregator input has at most this many records
MaxTokens == 2      \* a classifier input is built from at most this many tokens
MaxTick   == 1      \* largest element index at which the clock may tick
ExtraElems == 2     \* elements supplied beyond the largest per-adapter cap

----------------------------------------------------------------------------
(* Python dicts are functions from keys to values *)

EmptyDict == [k \in {} |-> 0]

\* d.get(key, default)
Get(d, key, default) == IF key \in DOMAIN d THEN d[key] ELSE default

NoEnv == [sender_email |-> FALSE, sender_password |-> FALSE,
          recipient_email |-> FALSE, snowflake |-> FALSE]

\* the pipeline part of the state while no pipeline runs
PipeIdle ==
    /\ analytics = EmptyDict
    /\ env = NoEnv
    /\ steps = <<>>
    /\ contacts = {}
    /\ csv_file = FALSE
    /\ snowflake_success = FALSE
    /\ email_success = FALSE
    /\ outcome = "running"

----------------------------------------------------------------------------
(* Python string primitives *)

None == "<None>"

Char(s, i) == SubSeq(s, i, i)

UpperAlpha == "ABCDEFGHIJKLMNOPQRSTUVWXYZ"
LowerAlpha == "abcdefghijklmnopqrstuvwxyz"

UpperChars == {Char(UpperAlpha, k) : k \in 1..26}

LowerOf == [c \in UpperChars |->
               Char(LowerAlpha, CHOOSE k \in 1..26 : Char(UpperAlpha, k) = c)]

\* str.lower() on one character
LowerChar(c) == IF c \in UpperChars THEN LowerOf[c] ELSE c

RECURSIVE lower(_)
\* str.lower()
lower(s) ==
    IF Len(s) = 0 THEN ""
    ELSE LowerChar(Char(s, 1)) \o lower(SubSeq(s, 2, Len(s)))

Whitespace == {" ", "\t", "\n"}

RECURSIVE lstrip(_)
lstrip(s) ==
    IF Len(s) > 0 /\ Char(s, 1) \in Whitespace
    THEN lstrip(SubSeq(s, 2, Len(s)))
    ELSE s

RECURSIVE rstrip(_)
rstrip(s) ==
    IF Len(s) > 0 /\ Char(s, Len(s)) \in Whitespace
    THEN rstrip(SubSeq(s, 1, Len(s) - 1))
    ELSE s

\* str.strip()
strip(s) == rstrip(lstrip(s))

\* the Python expression  word in s
Contains(s, word) ==
    \E i \in 1..(Len(s) - Len(word) + 1) : SubSeq(s, i, i + Len(word) - 1) = word

\* any(word in s for word in words)
AnyIn(s, words) == \E k \in 1..Len(words) : Contains(s, words[k])

\* truthiness of a str-or-None value
Truthy(s) == s # None /\ Len(s) > 0

\* the Python expression  a or b
Or(a, b) == IF Truthy(a) THEN a ELSE b

----------------------------------------------------------------------------
(* Text classifier *)

determine_job_type_NoOrder(t) ==
    LET title_lower == lower(t) IN
    IF AnyIn(title_lower, <<"contract", "contractor", "freelance">>) THEN "Contract"
    ELSE IF AnyIn(title_lower, <<"intern", "internship", "trainee">>) THEN "Internship"
    ELSE IF AnyIn(title_lower, <<"part-time", "part time">>) THEN "Part-time"
    ELSE "Full-time"

determine_job_type_NoDefault(t) ==
    LET title_lower == lower(t) IN
    IF AnyIn(title_lower, <<"intern", "internship", "trainee">>) THEN "Internship"
    ELSE IF AnyIn(title_lower, <<"contract", "contractor", "freelance">>) THEN "Contract"
    ELSE IF AnyIn(title_lower, <<"part-time", "part time">>) THEN "Part-time"
    ELSE None

determine_job_type(t) ==
    LET title_lower == lower(t) IN
    IF AnyIn(title_lower, <<"intern", "internship", "trainee">>) THEN "Internship"
    ELSE IF AnyIn(title_lower, <<"contract", "contractor", "freelance">>) THEN "Contract"
    ELSE IF AnyIn(title_lower, <<"part-time", "part time">>) THEN "Part-time"
    ELSE "Full-time"

determine_work_mode_TitleOnly(t, loc) ==
    LET combined == lower(t) IN
    IF AnyIn(combined, <<"remote", "work from home", "wfh">>) THEN "Remote"
    ELSE IF AnyIn(combined, <<"hybrid">>) THEN "Hybrid"
    ELSE "On-site"

determine_work_mode(t, loc) ==
    LET combined == lower(t \o " " \o loc) IN
    IF AnyIn(combined, <<"remote", "work from home", "wfh">>) THEN "Remote"
    ELSE IF AnyIn(combined, <<"hybrid">>) THEN "Hybrid"
    ELSE "On-site"

determine_experience_level_ManagementFirst(t) ==
    LET title_lower == lower(t) IN
    IF AnyIn(title_lower, <<"junior", "entry", "associate", "jr">>) THEN "Entry Level"
    ELSE IF AnyIn(title_lower, <<"manager", "director", "head">>) THEN "Management"
    ELSE IF AnyIn(title_lower, <<"senior", "sr", "lead", "principal">>) THEN "Senior Level"
    ELSE "Mid Level"

determine_experience_level(t) ==
    LET title_lower == lower(t) IN
    IF AnyIn(title_lower, <<"junior", "entry", "associate", "jr">>) THEN "Entry Level"
    ELSE IF AnyIn(title_lower, <<"senior", "sr", "lead", "principal">>) THEN "Senior Level"
    ELSE IF AnyIn(title_lower, <<"manager", "director", "head">>) THEN "Management"
    ELSE "Mid Level"

JobTypes == {"Internship", "Contract", "Part-time", "Full-time"}
WorkModes == {"Remote", "Hybrid", "On-site"}
ExperienceLevels == {"Entry Level", "Senior Level", "Management", "Mid Level"}

----------------------------------------------------------------------------
(* Clock and timestamps.  The run starts at midnight of StartDate; the     *)
(* clock value is the number of seconds since then.                        *)

StartDate == "20240101"

Pad2(n) == IF n < 10 THEN "0" \o ToString(n) ELSE ToString(n)

\* datetime.strftime('%Y%m%d_%H%M%S')
strftime(t) ==
    StartDate \o "_" \o Pad2(t \div 3600) \o Pad2((t \div 60) % 60) \o Pad2(t % 60)

\* datetime.now() while element i of a batch that started at t is processed
clock_at(t, tick, i) == t + (IF tick > 0 /\ i >= tick THEN 1 ELSE 0)

----------------------------------------------------------------------------
(* Record extractors.  A page gives, per field, the element list that      *)
(* driver.find_elements returns for each candidate selector, in selector   *)
(* order; an element has its visible text, its title attribute (or None)   *)
(* and is stale when every access to it raises.                            *)

GlassdoorCap == 20
IndeedCap == 15

Min(a, b) == IF a < b THEN a ELSE b

RECURSIVE first_match(_, _, _)
\* for selector in selectors: elems = find_elements(selector); if elems: break
first_match(results, k, cur) ==
    IF k > Len(results) THEN cur
    ELSE IF results[k] # <<>> THEN results[k]
    ELSE first_match(results, k + 1, results[k])

\* the candidate selectors, in list order
glassdoor_job_selectors ==
    << "[data-test='job-title']", ".JobCard_jobTitle___7I6y",
       "a[data-test='job-link']" >>

location_selectors ==
    << "[data-test='job-location']", ".JobCard_location__rCz3x" >>

company_selectors ==
    << "[data-test='employer-name']",
       ".EmployerProfile_compactEmployerName__LE242" >>

indeed_job_selectors ==
    << "h2.jobTitle a span[title]", "[data-jk] h2 a span", ".jobTitle a span" >>

queried_All(results) == Len(results)

\* the number of selectors for which the loop calls find_elements: it leaves
\* at the first non-empty result
queried(results) ==
    LET hit == {k \in 1..Len(results) : results[k] # <<>>}
    IN  IF hit = {} THEN Len(results) ELSE CHOOSE k \in hit : \A h \in hit : k <= h

\* the find_elements calls of one selector loop, in order
find_calls(field, selectors, results) ==
    [k \in 1..queried(results) |-> [field |-> field, selector |-> selectors[k]]]

\* the find_elements calls of scrape_glassdoor; on a page where find_elements
\* raises the first call is the only one
glassdoor_calls(pg) ==
    IF pg.broken THEN << [field |-> "job", selector |-> glassdoor_job_selectors[1]] >>
    ELSE find_calls("job", glassdoor_job_selectors, pg.job)
         \o find_calls("loc", location_selectors, pg.loc)
         \o find_calls("comp", company_selectors, pg.comp)

\* the find_elements calls of scrape_indeed
indeed_calls(pg) ==
    IF pg.broken THEN << [field |-> "job", selector |-> indeed_job_selectors[1]] >>
    ELSE find_calls("job", indeed_job_selectors, pg.job)

\* job_id of a scraped record
job_id_NoIndex(src, cat, i, t) ==
    src \o "_" \o cat \o "_" \o strftime(t)

job_id(src, cat, i, t) ==
    src \o "_" \o cat \o "_" \o ToString(i) \o "_" \o strftime(t)

\* x[i].text.strip() if i < len(x) else "N/A"
text_or_na(elems, i) ==
    IF i < Len(elems) THEN strip(elems[i + 1].text) ELSE "N/A"

\* the title test of scrape_glassdoor
glassdoor_keep_NoFilter(t) == TRUE

glassdoor_keep(t) == Truthy(t) /\ t # "N/A" /\ Len(t) > 3

\* an index past the end of the location or company list gives no record
glassdoor_element_NeedsAll(job_elements, location_elements, company_elements, cat, i, t) ==
    IF \/ job_elements[i + 1].stale
       \/ i >= Len(location_elements)
       \/ i >= Len(company_elements)
       \/ location_elements[i + 1].stale
       \/ company_elements[i + 1].stale
       \/ ~glassdoor_keep(text_or_na(job_elements, i))
    THEN <<>>
    ELSE << [job_id |-> job_id("glassdoor", cat, i, t),
             job_title |-> text_or_na(job_elements, i),
             company |-> text_or_na(company_elements, i),
             location |-> text_or_na(location_elements, i),
             category |-> cat,
             job_type |-> determine_job_type(text_or_na(job_elements, i)),
             work_mode |-> determine_work_mode(text_or_na(job_elements, i),
                                               text_or_na(location_elements, i)),
             experience_level |-> determine_experience_level(text_or_na(job_elements, i)),
             source |-> "glassdoor",
             scraped_timestamp |-> t,
             posted_date |-> t \div 86400] >>

\* body of the extraction loop of scrape_glassdoor for index i: the records
\* it appends (none when an element access raises or the title is rejected)
glassdoor_element(job_elements, location_elements, company_elements, cat, i, t) ==
    IF \/ job_elements[i + 1].stale
       \/ (i < Len(location_elements) /\ location_elements[i + 1].stale)
       \/ (i < Len(company_elements) /\ company_elements[i + 1].stale)
    THEN <<>>
    ELSE
      LET t_title == text_or_na(job_elements, i)
          t_location == text_or_na(location_elements, i)
          t_company == text_or_na(company_elements, i)
      IN  IF glassdoor_keep(t_title)
          THEN << [job_id |-> job_id("glassdoor", cat, i, t),
                   job_title |-> t_title,
                   company |-> t_company,
                   location |-> t_location,
                   category |-> cat,
                   job_type |-> determine_job_type(t_title),
                   work_mode |-> determine_work_mode(t_title, t_location),
                   experience_level |-> determine_experience_level(t_title),
                   source |-> "glassdoor",
                   scraped_timestamp |-> t,
                   posted_date |-> t \div 86400] >>
          ELSE <<>>

RECURSIVE glassdoor_loop(_, _, _, _, _, _, _, _)
glassdoor_loop(job_elements, location_elements, company_elements, cat, i, n, t, tick) ==
    IF i >= n THEN <<>>
    ELSE glassdoor_element(job_elements, location_elements, company_elements,
                           cat, i, clock_at(t, tick, i))
         \o glassdoor_loop(job_elements, location_elements, company_elements,
                           cat, i + 1, n, t, tick)

glassdoor_range_NoCap(job_elements) == Len(job_elements)

\* range(min(len(job_elements), 20))
glassdoor_range(job_elements) == Min(Len(job_elements), GlassdoorCap)

\* the extraction loop is left at the first element that cannot be read
scrape_glassdoor_BatchFails(pg, cat, t, tick) ==
    IF pg.broken THEN <<>>
    ELSE
      LET job_elements == first_match(pg.job, 1, <<>>)
          location_elements == first_match(pg.loc, 1, <<>>)
          company_elements == first_match(pg.comp, 1, <<>>)
          n == glassdoor_range(job_elements)
          bad == {i \in 0..(n - 1) :
                    \/ job_elements[i + 1].stale
                    \/ (i < Len(location_elements) /\ location_elements[i + 1].stale)
                    \/ (i < Len(company_elements) /\ company_elements[i + 1].stale)}
          stop == IF bad = {} THEN n ELSE CHOOSE i \in bad : \A j \in bad : i <= j
      IN  glassdoor_loop(job_elements, location_elements, company_elements,
                         cat, 0, stop, t, tick)

\* scrape_glassdoor(driver, category) on a page, started at clock value t
scrape_glassdoor(pg, cat, t, tick) ==
    IF pg.broken THEN <<>>
    ELSE
      LET job_elements == first_match(pg.job, 1, <<>>)
          location_elements == first_match(pg.loc, 1, <<>>)
          company_elements == first_match(pg.comp, 1, <<>>)
      IN  glassdoor_loop(job_elements, location_elements, company_elements,
                         cat, 0, glassdoor_range(job_elements), t, tick)

\* the title test of scrape_indeed
indeed_keep(t) == Truthy(t) /\ Len(t) > 3

\* element.get_attribute('title') or element.text.strip()
indeed_title(element) == Or(element.attr, strip(element.text))

\* the derived labels are constants, like company and location
indeed_element_FixedLabels(element, cat, i, t) ==
    IF element.stale \/ ~indeed_keep(indeed_title(element)) THEN <<>>
    ELSE << [job_id |-> job_id("indeed", cat, i, t),
             job_title |-> indeed_title(element),
             company |-> "Various Companies",
             location |-> "United States",
             category |-> cat,
             job_type |-> "Full-time",
             work_mode |-> "On-site",
             experience_level |-> "Mid Level",
             source |-> "indeed",
             scraped_timestamp |-> t,
             posted_date |-> t \div 86400] >>

\* body of the extraction loop of scrape_indeed for index i
indeed_element(element, cat, i, t) ==
    IF element.stale THEN <<>>
    ELSE
      LET t_title == indeed_title(element)
      IN  IF indeed_keep(t_title)
          THEN << [job_id |-> job_id("indeed", cat, i, t),
                   job_title |-> t_title,
                   company |-> "Various Companies",
                   location |-> "United States",
                   category |-> cat,
                   job_type |-> determine_job_type(t_title),
                   work_mode |-> determine_work_mode(t_title, ""),
                   experience_level |-> determine_experience_level(t_title),
                   source |-> "indeed",
                   scraped_timestamp |-> t,
                   posted_date |-> t \div 86400] >>
          ELSE <<>>

RECURSIVE indeed_loop(_, _, _, _, _)
indeed_loop(elements, cat, i, t, tick) ==
    IF i >= Len(elements) THEN <<>>
    ELSE indeed_element(elements[i + 1], cat, i, clock_at(t, tick, i))
         \o indeed_loop(elements, cat, i + 1, t, tick)

\* job_elements[:15]
indeed_slice(job_elements) == SubSeq(job_elements, 1, Min(Len(job_elements), IndeedCap))

\* scrape_indeed(driver, category) on a page, started at clock value t
scrape_indeed(pg, cat, t, tick) ==
    IF pg.broken THEN <<>>
    ELSE
      LET job_elements == first_match(pg.job, 1, <<>>)
      IN  indeed_loop(indeed_slice(job_elements), cat, 0, t, tick)

\* one literal record of generate_sample_jobs
sample_job(num, t_title, t_company, t_location, cat, jt, wm, el, t) ==
    [job_id |-> "sample_" \o num \o "_" \o strftime(t),
     job_title |-> t_title,
     company |-> t_company,
     location |-> t_location,
     category |-> cat,
     job_type |-> jt,
     work_mode |-> wm,
     experience_level |-> el,
     source |-> "sample",
     scraped_timestamp |-> t,
     posted_date |-> t \div 86400]

\* generate_sample_jobs() called at clock value t
generate_sample_jobs(t) ==
    << sample_job("001", "Senior Data Engineer", "Tech Innovations Inc",
                  "New York, NY", "data_engineer", "Full-time", "Remote",
                  "Senior Level", t),
       sample_job("002", "Data Scientist - Machine Learning", "AI Solutions Corp",
                  "San Francisco, CA", "data_scientist", "Full-time", "Hybrid",
                  "Mid Level", t),
       sample_job("003", "Business Intelligence Analyst", "DataFlow Analytics",
                  "Chicago, IL", "data_analyst", "Full-time", "On-site",
                  "Entry Level", t),
       sample_job("004", "Data Warehouse Engineer", "Enterprise Data Systems",
                  "Austin, TX", "data_engineer", "Contract", "Remote",
                  "Senior Level", t),
       sample_job("005", "Junior Data Analyst", "StartUp Analytics",
                  "Boston, MA", "data_analyst", "Full-time", "Hybrid",
                  "Entry Level", t) >>

----------------------------------------------------------------------------
(* Inputs of the classifier: every concatenation of at most MaxTokens      *)
(* tokens, plus the titles and locations quoted in the documentation.      *)

Tokens ==
    {"", "Data ", "Intern", "in", "tern", "CONTRACT", "Part", "-time", " Time",
     "Trainee", "freelance", "Remote", "WFH", "Hybrid", "work from", " home",
     "Senior", "jr", "Lead", "Manager"}

RECURSIVE TokenStrings(_)
TokenStrings(n) ==
    IF n = 0 THEN {""}
    ELSE {a \o b : a \in TokenStrings(n - 1), b \in Tokens}

ExampleTitles ==
    {"Data Analyst Intern", "Senior Data Engineer", "Remote Data Scientist",
     "Data Analyst", "International Contract Analyst"}

Titles == TokenStrings(MaxTokens) \cup ExampleTitles

Locations ==
    {"", "New York, NY", "Chicago, IL", "Remote", "home", "Hybrid - Austin, TX",
     "Remote or Hybrid"}

NoLabels == [job_type |-> None, work_mode |-> None, experience_level |-> None]

NoPage == [job |-> <<>>, loc |-> <<>>, comp |-> <<>>, broken |-> FALSE]

InitClassify ==
    /\ mode = "classify"
    /\ pc = "ready"
    /\ title \in Titles
    /\ location \in Locations
    /\ labels = NoLabels
    /\ page = NoPage
    /\ category = ""
    /\ source = ""
    /\ jobs = <<>>
    /\ all_jobs = <<>>
    /\ driver = "none"
    /\ pair = 0
    /\ fetches = <<>>
    /\ now = 0
    /\ tickAt = 0
    /\ result = <<>>
    /\ PipeIdle

\* one call of each of the three classifier functions on (title, location)
Classify ==
    /\ mode = "classify"
    /\ pc = "ready"
    /\ labels' = [job_type |-> determine_job_type(title),
                  work_mode |-> determine_work_mode(title, location),
                  experience_level |-> determine_experience_level(title)]
    /\ pc' = "done"
    /\ UNCHANGED <<mode, title, location, page, category, source, jobs,
                   all_jobs, driver, pair, fetches, now, tickAt, result,
                   pipe_vars>>

NextClassify == Classify

SpecClassify == InitClassify /\ [][NextClassify]_vars

----------------------------------------------------------------------------
(* Inputs of the extractors: pages generated from small pools of texts.    *)

Categories == {"data_analyst", "data_engineer", "data_scientist"}

MixedPool ==
    << "Data Engineer", "xy", "N/A", "Senior Analyst", "  ab  ", "",
       "  Remote Intern ", "    " >>

ValidPool ==
    << "Data Engineer", "Senior Analyst", "Remote Data Scientist",
       "Data Analyst Intern" >>

LocPool == << " New York, NY ", "Remote", "Chicago, IL", "Hybrid - Austin, TX" >>

CompPool == << "Tech Innovations Inc", " AI Solutions Corp", "N/A" >>

Cyclic(pool, k) == pool[(k % Len(pool)) + 1]

\* n title elements; with useAttr the element also carries its text as the
\* title attribute
GenElems(pool, n, off, useAttr, staleAt) ==
    [i \in 1..n |->
        [text |-> Cyclic(pool, off + i - 1),
         attr |-> IF useAttr THEN Cyclic(pool, off + i - 1) ELSE None,
         stale |-> (i = staleAt)]]

\* n plain text elements
TextElems(pool, n, staleAt) ==
    [i \in 1..n |-> [text |-> Cyclic(pool, i - 1), attr |-> None, stale |-> (i = staleAt)]]

Decoy == << [text |-> "Decoy Listing", attr |-> "Decoy Listing", stale |-> FALSE] >>

\* results per selector: nothing before selector sel, elems at sel, a decoy after
BySelector(elems, sel, nsel) ==
    [k \in 1..nsel |-> IF k < sel THEN <<>> ELSE IF k = sel THEN elems ELSE Decoy]

LocModes == {"none", "one", "all"}

LocCount(m, n) == IF m = "none" THEN 0 ELSE IF m = "one" THEN Min(n, 1) ELSE n

GenPage(pool, n, off, useAttr, staleAt, sel, locMode, staleLoc) ==
    [job |-> BySelector(GenElems(pool, n, off, useAttr, staleAt), sel, 3),
     loc |-> BySelector(TextElems(LocPool, LocCount(locMode, n), staleLoc), 1, 2),
     comp |-> BySelector(TextElems(CompPool, n - LocCount(locMode, n), 0), 2, 2),
     broken |-> FALSE]

\* a page on which driver.find_elements raises
BrokenPage == [job |-> <<>>, loc |-> <<>>, comp |-> <<>>, broken |-> TRUE]

\* <<stale title element, stale location element>>, 0 for none
StaleModes == {<<0, 0>>, <<2, 0>>, <<0, 3>>}

ElemCounts ==
    {0, 1, 4, IndeedCap, IndeedCap + 1, GlassdoorCap, GlassdoorCap + ExtraElems}

ExtractPages ==
    {GenPage(pool, n, off, ua, st[1], sel, lm, st[2]) :
        pool \in {MixedPool, ValidPool}, n \in ElemCounts, off \in 0..1,
        ua \in BOOLEAN, st \in StaleModes, sel \in {1, 3}, lm \in LocModes}
    \cup {BrokenPage}

InitExtract ==
    /\ mode = "extract"
    /\ pc = "ready"
    /\ title = ""
    /\ location = ""
    /\ labels = NoLabels
    /\ page \in ExtractPages
    /\ category \in Categories
    /\ source = ""
    /\ jobs = <<>>
    /\ all_jobs = <<>>
    /\ driver = "up"
    /\ pair = 0
    /\ fetches = <<>>
    /\ now = 0
    /\ tickAt \in 0..MaxTick
    /\ result = <<>>
    /\ PipeIdle

\* one call scrape_glassdoor(driver, category) on the current page
ExtractGlassdoor ==
    /\ mode = "extract"
    /\ pc = "ready"
    /\ source' = "glassdoor"
    /\ jobs' = scrape_glassdoor(page, category, now, tickAt)
    /\ steps' = glassdoor_calls(page)
    /\ pc' = "done"
    /\ UNCHANGED <<mode, title, location, labels, page, category, all_jobs,
                   driver, pair, fetches, now, tickAt, result,
                   analytics, env, contacts, csv_file, snowflake_success,
                   email_success, outcome>>

\* one call scrape_indeed(driver, category) on the current page
ExtractIndeed ==
    /\ mode = "extract"
    /\ pc = "ready"
    /\ source' = "indeed"
    /\ jobs' = scrape_indeed(page, category, now, tickAt)
    /\ steps' = indeed_calls(page)
    /\ pc' = "done"
    /\ UNCHANGED <<mode, title, location, labels, page, category, all_jobs,
                   driver, pair, fetches, now, tickAt, result,
                   analytics, env, contacts, csv_file, snowflake_success,
                   email_success, outcome>>

NextExtract == ExtractGlassdoor \/ ExtractIndeed

SpecExtract == InitExtract /\ [][NextExtract]_vars

----------------------------------------------------------------------------
(* Collector: scrape_jobs_smart *)

\* JOB_SOURCES flattened in iteration order (sources outer, categories inner)
JOB_SOURCES ==
    << [source |-> "glassdoor", category |-> "data_analyst"],
       [source |-> "glassdoor", category |-> "data_engineer"],
       [source |-> "glassdoor", category |-> "data_scientist"],
       [source |-> "indeed", category |-> "data_analyst"],
       [source |-> "indeed", category |-> "data_engineer"],
       [source |-> "indeed", category |-> "data_scientist"] >>

CategoriesPerSource == 3

TargetJobs == 50
MinJobs == 5
PageLoadWait == 8
RateLimitWait == 5

\* pair index meaning that both loops are over
LoopOver == Len(JOB_SOURCES) + 1

inner_break_Never(all) == FALSE

\* if len(all_jobs) >= 50: break          (inner loop)
inner_break(all) == Len(all) >= TargetJobs

outer_break_Never(all) == FALSE

\* if len(all_jobs) >= 50: break          (outer loop)
outer_break(all) == Len(all) >= TargetJobs

next_pair_SkipSource(p, all, broke) ==
    IF outer_break(all) THEN LoopOver
    ELSE ((p - 1) \div CategoriesPerSource + 1) * CategoriesPerSource + 1

\* the pair the loops turn to after pair p; broke: the inner loop was left
\* by its break statement
next_pair(p, all, broke) ==
    IF ~broke /\ p % CategoriesPerSource # 0 THEN p + 1
    ELSE IF outer_break(all) THEN LoopOver
    ELSE ((p - 1) \div CategoriesPerSource + 1) * CategoriesPerSource + 1

post_loop_NoFallback(all, t) == all

post_loop_Replace(all, t) ==
    IF Len(all) < MinJobs THEN generate_sample_jobs(t) ELSE all

\* if len(all_jobs) < 5: all_jobs.extend(generate_sample_jobs())
post_loop(all, t) ==
    IF Len(all) < MinJobs THEN all \o generate_sample_jobs(t) ELSE all

\* pages the sites answer with during a run
CollectPages ==
    { GenPage(MixedPool, 0, 0, FALSE, 0, 1, "none", 0),
      GenPage(MixedPool, 5, 0, TRUE, 0, 1, "all", 0),
      GenPage(ValidPool, 9, 0, FALSE, 0, 2, "one", 0),
      GenPage(ValidPool, GlassdoorCap + ExtraElems, 0, TRUE, 0, 1, "all", 0) }

Init ==
    /\ mode = "collect"
    /\ pc = "start"
    /\ title = ""
    /\ location = ""
    /\ labels = NoLabels
    /\ page = NoPage
    /\ category = ""
    /\ source = ""
    /\ jobs = <<>>
    /\ all_jobs = <<>>
    /\ driver = "none"
    /\ pair = 1
    /\ fetches = <<>>
    /\ now = 0
    /\ tickAt \in 0..MaxTick
    /\ result = <<>>
    /\ PipeIdle

\* driver = setup_chrome_driver() succeeds
SetupDriver ==
    /\ mode = "collect"
    /\ pc = "start"
    /\ driver' = "up"
    /\ pc' = "loop"
    /\ UNCHANGED <<mode, title, location, labels, page, category, source, jobs,
                   all_jobs, pair, fetches, now, tickAt, result,
                   pipe_vars>>

\* setup_chrome_driver() raises: the outer handler substitutes the sample
\* records, the finally clause finds driver = None, the function returns
SetupFails ==
    /\ mode = "collect"
    /\ pc = "start"
    /\ all_jobs' = generate_sample_jobs(now)
    /\ result' = all_jobs'
    /\ pc' = "done"
    /\ UNCHANGED <<mode, title, location, labels, page, category, source, jobs,
                   driver, pair, fetches, now, tickAt,
                   pipe_vars>>

\* one iteration of the inner loop in which driver.get(url) raises: the
\* handler logs and continues with the next pair; no time.sleep is executed
\* on this path (the clock counts the seconds spent in time.sleep)
PairFetchFails ==
    /\ mode = "collect"
    /\ pc = "loop"
    /\ pair < LoopOver
    /\ fetches' = Append(fetches, [pair |-> pair, at |-> now, ok |-> FALSE])
    /\ source' = JOB_SOURCES[pair].source
    /\ category' = JOB_SOURCES[pair].category
    /\ pair' = next_pair(pair, all_jobs, FALSE)
    /\ UNCHANGED <<mode, pc, title, location, labels, page, jobs, all_jobs,
                   driver, now, tickAt, result,
                   pipe_vars>>

\* one iteration of the inner loop in which the page loads: settle delay,
\* the adapter of the source, extend, threshold test, rate-limit delay
PairScraped ==
    /\ mode = "collect"
    /\ pc = "loop"
    /\ pair < LoopOver
    /\ \E pg \in CollectPages :
         LET src == JOB_SOURCES[pair].source
             cat == JOB_SOURCES[pair].category
         IN  \E found \in {IF src = "glassdoor"
                          THEN scrape_glassdoor(pg, cat, now + PageLoadWait, tickAt)
                          ELSE scrape_indeed(pg, cat, now + PageLoadWait, tickAt)} :
               /\ page' = pg
               /\ source' = src
               /\ category' = cat
               /\ jobs' = found
               /\ all_jobs' = all_jobs \o found
               /\ fetches' = Append(fetches, [pair |-> pair, at |-> now, ok |-> TRUE])
               /\ pair' = next_pair(pair, all_jobs', inner_break(all_jobs'))
               /\ now' = IF inner_break(all_jobs') THEN now + PageLoadWait
                         ELSE now + PageLoadWait + RateLimitWait
    /\ UNCHANGED <<mode, pc, title, location, labels, driver, tickAt, result,
                   pipe_vars>>

\* the function returns after the loops without a call of driver.quit
PostLoop_NoQuit ==
    /\ mode = "collect"
    /\ pc = "loop"
    /\ pair >= LoopOver
    /\ all_jobs' = post_loop(all_jobs, now)
    /\ result' = all_jobs'
    /\ pc' = "done"
    /\ UNCHANGED <<mode, title, location, labels, page, category, source, jobs,
                   driver, pair, fetches, now, tickAt,
                   pipe_vars>>

\* after the loops: sample fallback, driver.quit() in the finally clause
\* (the Chrome driver's quit does not raise), return all_jobs
PostLoop ==
    /\ mode = "collect"
    /\ pc = "loop"
    /\ pair >= LoopOver
    /\ all_jobs' = post_loop(all_jobs, now)
    /\ driver' = "quit"
    /\ steps' = Append(steps, "driver.quit")
    /\ result' = all_jobs'
    /\ pc' = "done"
    /\ UNCHANGED <<mode, title, location, labels, page, category, source, jobs,
                   pair, fetches, now, tickAt,
                   analytics, env, contacts, csv_file, snowflake_success,
                   email_success, outcome>>

Next == SetupDriver \/ SetupFails \/ PairFetchFails \/ PairScraped \/ PostLoop

Spec == Init /\ [][Next]_vars

----------------------------------------------------------------------------
(* Aggregator: generate_analytics (production_pipeline.py) and             *)
(* generate_analytics_from_data (enhanced_email_pipeline.py)               *)

TopCompanies == 10

value_counts_Presence(list, field) ==
    [v \in {list[i][field] : i \in 1..Len(list)} |-> 1]

\* pd.DataFrame(list)[field].value_counts().to_dict()
value_counts(list, field) ==
    [v \in {list[i][field] : i \in 1..Len(list)} |->
        Cardinality({i \in 1..Len(list) : list[i][field] = v})]

\* df[df[field] != value]
rows_where_not(list, field, value) ==
    SelectSeq(list, LAMBDA r : r[field] # value)

\* position of the first row that has value v in the field
first_seen(list, field, v) ==
    CHOOSE i \in 1..Len(list) :
        /\ list[i][field] = v
        /\ \A j \in 1..(i - 1) : list[j][field] # v

\* value_counts().head(n).to_dict(): the n most frequent values, ties kept
\* in first-seen order
head_counts(list, field, n) ==
    LET counts == value_counts(list, field)
        ahead(w, v) == \/ counts[w] > counts[v]
                       \/ /\ counts[w] = counts[v]
                          /\ first_seen(list, field, w) < first_seen(list, field, v)
        kept == {v \in DOMAIN counts :
                    Cardinality({w \in DOMAIN counts : ahead(w, v)}) < n}
    IN  [v \in kept |-> counts[v]]

analytics_of_WrongColumn(list, companies) ==
    [total_jobs |-> Len(list),
     jobs_by_category |-> value_counts(list, "category"),
     jobs_by_type |-> value_counts(list, "job_type"),
     jobs_by_work_mode |-> value_counts(list, "job_type"),
     jobs_by_experience |-> value_counts(list, "experience_level"),
     top_companies |-> companies,
     sources |-> value_counts(list, "source")]

\* the dict literal of generate_analytics
analytics_of(list, companies) ==
    [total_jobs |-> Len(list),
     jobs_by_category |-> value_counts(list, "category"),
     jobs_by_type |-> value_counts(list, "job_type"),
     jobs_by_work_mode |-> value_counts(list, "work_mode"),
     jobs_by_experience |-> value_counts(list, "experience_level"),
     top_companies |-> companies,
     sources |-> value_counts(list, "source")]

generate_analytics_NoEarlyReturn(jobs_data) ==
    analytics_of(jobs_data, head_counts(jobs_data, "company", TopCompanies))

\* generate_analytics(jobs_data) of production_pipeline.py
generate_analytics(jobs_data) ==
    IF jobs_data = <<>> THEN EmptyDict
    ELSE analytics_of(jobs_data, head_counts(jobs_data, "company", TopCompanies))

\* generate_analytics_from_data(jobs_data) of enhanced_email_pipeline.py
generate_analytics_from_data(jobs_data) ==
    IF jobs_data = <<>> THEN EmptyDict
    ELSE analytics_of(jobs_data,
                      head_counts(rows_where_not(jobs_data, "company", "N/A"),
                                  "company", TopCompanies))

\* records the aggregator inputs are built from: three sample records and
\* the two records scrape_glassdoor gives for a page without company elements
AggPool ==
    LET samples == generate_sample_jobs(0)
        scraped == scrape_glassdoor(GenPage(ValidPool, 2, 0, FALSE, 0, 1, "all", 0),
                                    "data_analyst", 0, 0)
    IN  {samples[1], samples[3], samples[4], scraped[1], scraped[2]}

RECURSIVE SeqsUpTo(_, _)
\* all sequences of at most n members of S
SeqsUpTo(S, n) ==
    IF n = 0 THEN {<<>>}
    ELSE LET shorter == SeqsUpTo(S, n - 1)
         IN  shorter \cup {Append(q, x) : q \in shorter, x \in S}

AggInputs == SeqsUpTo(AggPool, MaxRecs) \cup {generate_sample_jobs(0)}

InitAggregate ==
    /\ mode = "aggregate"
    /\ pc = "ready"
    /\ title = ""
    /\ location = ""
    /\ labels = NoLabels
    /\ page = NoPage
    /\ category = ""
    /\ source = ""
    /\ jobs \in AggInputs
    /\ all_jobs = <<>>
    /\ driver = "none"
    /\ pair = 0
    /\ fetches = <<>>
    /\ now = 0
    /\ tickAt = 0
    /\ result = <<>>
    /\ PipeIdle

\* one call generate_analytics(jobs)
GenerateAnalytics ==
    /\ mode = "aggregate"
    /\ pc = "ready"
    /\ analytics' = generate_analytics(jobs)
    /\ steps' = <<"generate_analytics">>
    /\ pc' = "done"
    /\ UNCHANGED <<mode, title, location, labels, page, category, source, jobs,
                   all_jobs, driver, pair, fetches, now, tickAt, result, env,
                   contacts, csv_file, snowflake_success, email_success, outcome>>

\* one call generate_analytics_from_data(jobs)
GenerateAnalyticsFromData ==
    /\ mode = "aggregate"
    /\ pc = "ready"
    /\ analytics' = generate_analytics_from_data(jobs)
    /\ steps' = <<"generate_analytics_from_data">>
    /\ pc' = "done"
    /\ UNCHANGED <<mode, title, location, labels, page, category, source, jobs,
                   all_jobs, driver, pair, fetches, now, tickAt, result, env,
                   contacts, csv_file, snowflake_success, email_success, outcome>>

NextAggregate == GenerateAnalytics \/ GenerateAnalyticsFromData

SpecAggregate == InitAggregate /\ [][NextAggregate]_vars

----------------------------------------------------------------------------
(* Top level: run_production_pipeline with save_to_snowflake and           *)
(* send_email_report.  env says which of SENDER_EMAIL, SENDER_PASSWORD and *)
(* RECIPIENT_EMAIL are set and whether the SNOWFLAKE_* variables are.      *)
(* steps logs each step entered, "raise:<step>" when it raised.            *)

Envs == [sender_email : BOOLEAN, sender_password : BOOLEAN,
         recipient_email : BOOLEAN, snowflake : BOOLEAN]

\* all([sender_email, sender_password, recipient_email])
email_configured(e) == e.sender_email /\ e.sender_password /\ e.recipient_email

\* lists scrape_jobs_smart can return: samples only, two scraped records
\* followed by the samples, nine scraped records
ScrapeResults ==
    { generate_sample_jobs(0),
      post_loop(scrape_glassdoor(GenPage(MixedPool, 5, 0, TRUE, 0, 1, "all", 0),
                                 "data_analyst", PageLoadWait, 0), 0),
      post_loop(scrape_glassdoor(GenPage(ValidPool, 9, 0, FALSE, 0, 2, "one", 0),
                                 "data_engineer", PageLoadWait, 0), 0) }

InitPipeline ==
    /\ mode = "pipeline"
    /\ pc = "makedirs"
    /\ title = ""
    /\ location = ""
    /\ labels = NoLabels
    /\ page = NoPage
    /\ category = ""
    /\ source = ""
    /\ jobs = <<>>
    /\ all_jobs = <<>>
    /\ driver = "none"
    /\ pair = 0
    /\ fetches = <<>>
    /\ now = 0
    /\ tickAt = 0
    /\ result = <<>>
    /\ analytics = EmptyDict
    /\ env \in Envs
    /\ steps = <<>>
    /\ contacts = {}
    /\ csv_file = FALSE
    /\ snowflake_success = FALSE
    /\ email_success = FALSE
    /\ outcome = "running"

collector_vars == <<title, location, labels, page, category, source, all_jobs,
                    driver, pair, fetches, now, tickAt, result>>

\* os.makedirs('data'), os.makedirs('reports'), before the try block
MakeDirs ==
    /\ mode = "pipeline"
    /\ pc = "makedirs"
    /\ steps' = Append(steps, "makedirs")
    /\ pc' = "scrape"
    /\ UNCHANGED <<mode, collector_vars, jobs, analytics, env, contacts, csv_file,
                   snowflake_success, email_success, outcome>>

\* os.makedirs raises (no permission, a file of that name): nothing catches it
MakeDirsFails ==
    /\ mode = "pipeline"
    /\ pc = "makedirs"
    /\ steps' = Append(steps, "raise:makedirs")
    /\ outcome' = "raised"
    /\ pc' = "done"
    /\ UNCHANGED <<mode, collector_vars, jobs, analytics, env, contacts, csv_file,
                   snowflake_success, email_success>>

\* step 1: jobs = scrape_jobs_smart(); if not jobs: return False
ScrapeJobs ==
    /\ mode = "pipeline"
    /\ pc = "scrape"
    /\ jobs' \in ScrapeResults
    /\ steps' = Append(steps, "scrape")
    /\ outcome' = IF jobs' = <<>> THEN FALSE ELSE outcome
    /\ pc' = IF jobs' = <<>> THEN "done" ELSE "csv"
    /\ UNCHANGED <<mode, collector_vars, analytics, env, contacts, csv_file,
                   snowflake_success, email_success>>

\* step 2: df.to_csv(csv_file, index=False)
WriteCsv ==
    /\ mode = "pipeline"
    /\ pc = "csv"
    /\ csv_file' = TRUE
    /\ steps' = Append(steps, "csv")
    /\ pc' = "snowflake"
    /\ UNCHANGED <<mode, collector_vars, jobs, analytics, env, contacts,
                   snowflake_success, email_success, outcome>>

\* step 2 raises: the handler of run_production_pipeline returns False
WriteCsvFails ==
    /\ mode = "pipeline"
    /\ pc = "csv"
    /\ steps' = Append(steps, "raise:csv")
    /\ outcome' = FALSE
    /\ pc' = "done"
    /\ UNCHANGED <<mode, collector_vars, jobs, analytics, env, contacts, csv_file,
                   snowflake_success, email_success>>

\* the mutant of SaveToSnowflake: a failed save ends the run
SaveToSnowflake_Propagates ==
    /\ mode = "pipeline"
    /\ pc = "snowflake"
    /\ contacts' = contacts \cup {"snowflake"}
    /\ steps' = Append(steps, "snowflake")
    /\ \E ok \in (IF env.snowflake THEN BOOLEAN ELSE {FALSE}) :
          /\ snowflake_success' = ok
          /\ pc' = IF ok THEN "analytics" ELSE "done"
          /\ outcome' = IF ok THEN outcome ELSE FALSE
    /\ UNCHANGED <<mode, collector_vars, jobs, analytics, env, csv_file,
                   email_success>>

\* step 3: snowflake_success = save_to_snowflake(jobs).  The function calls
\* snowflake.connector.connect with whatever os.getenv returned; with the
\* variables unset the call raises; every exception gives False
SaveToSnowflake ==
    /\ mode = "pipeline"
    /\ pc = "snowflake"
    /\ contacts' = contacts \cup {"snowflake"}
    /\ steps' = Append(steps, "snowflake")
    /\ snowflake_success' \in (IF env.snowflake THEN BOOLEAN ELSE {FALSE})
    /\ pc' = "analytics"
    /\ UNCHANGED <<mode, collector_vars, jobs, analytics, env, csv_file,
                   email_success, outcome>>

\* step 4: analytics = generate_analytics(jobs)
Analytics ==
    /\ mode = "pipeline"
    /\ pc = "analytics"
    /\ analytics' = generate_analytics(jobs)
    /\ steps' = Append(steps, "analytics")
    /\ pc' = "email"
    /\ UNCHANGED <<mode, collector_vars, jobs, env, contacts, csv_file,
                   snowflake_success, email_success, outcome>>

\* step 4 raises (pandas, or print on a console that cannot encode the
\* output): the handler of run_production_pipeline returns False
AnalyticsFails ==
    /\ mode = "pipeline"
    /\ pc = "analytics"
    /\ steps' = Append(steps, "raise:analytics")
    /\ outcome' = FALSE
    /\ pc' = "done"
    /\ UNCHANGED <<mode, collector_vars, jobs, analytics, env, contacts, csv_file,
                   snowflake_success, email_success>>

\* step 5: email_success = send_email_report(jobs, analytics).  Incomplete
\* configuration returns False before smtplib is used; otherwise the SMTP
\* server is contacted and every exception gives False
SendEmail ==
    /\ mode = "pipeline"
    /\ pc = "email"
    /\ steps' = Append(steps, "email")
    /\ IF email_configured(env)
       THEN /\ contacts' = contacts \cup {"smtp"}
            /\ email_success' \in BOOLEAN
       ELSE /\ contacts' = contacts
            /\ email_success' = FALSE
    /\ pc' = "summary"
    /\ UNCHANGED <<mode, collector_vars, jobs, analytics, env, csv_file,
                   snowflake_success, outcome>>

\* the returned value also requires the email to have been sent
Summary_NeedsEmail ==
    /\ mode = "pipeline"
    /\ pc = "summary"
    /\ steps' = Append(steps, "summary")
    /\ outcome' = (Len(jobs) > 0 /\ snowflake_success /\ email_success)
    /\ pc' = "done"
    /\ UNCHANGED <<mode, collector_vars, jobs, analytics, env, contacts, csv_file,
                   snowflake_success, email_success>>

\* final summary and  return len(jobs) > 0 and snowflake_success
Summary ==
    /\ mode = "pipeline"
    /\ pc = "summary"
    /\ steps' = Append(steps, "summary")
    /\ outcome' = (Len(jobs) > 0 /\ snowflake_success)
    /\ pc' = "done"
    /\ UNCHANGED <<mode, collector_vars, jobs, analytics, env, contacts, csv_file,
                   snowflake_success, email_success>>

NextPipeline ==
    \/ MakeDirs \/ MakeDirsFails \/ ScrapeJobs \/ WriteCsv \/ WriteCsvFails
    \/ SaveToSnowflake \/ Analytics \/ AnalyticsFails \/ SendEmail \/ Summary

SpecPipeline == InitPipeline /\ [][NextPipeline]_vars

----------------------------------------------------------------------------
(* Statements about the classifier *)

Classified == mode = "classify" /\ pc = "done"

\* keyword kw (lower case) occurs in s at some position, letter case ignored
CIContains(s, kw) ==
    \E i \in 1..(Len(s) - Len(kw) + 1) :
        \A j \in 1..Len(kw) : LowerChar(Char(s, i + j - 1)) = Char(kw, j)

CIAny(s, kws) == \E kw \in kws : CIContains(s, kw)

\* label of the first group of the table that has a keyword in s
FirstGroup(s, groups, default) ==
    LET hit == {g \in 1..Len(groups) : CIAny(s, groups[g].kws)} IN
    IF hit = {} THEN default
    ELSE groups[CHOOSE g \in hit : \A h \in hit : g <= h].label

\* C8: each classifier function returns exactly one label of its enumerated
\* set for every input, never None or the empty string, and the default
\* label (Full-time, On-site, Mid Level) on empty input.
C8_ClassifierTotal ==
    Classified =>
        /\ labels.job_type \in JobTypes
        /\ labels.work_mode \in WorkModes
        /\ labels.experience_level \in ExperienceLevels
        /\ title = "" => /\ labels.job_type = "Full-time"
                         /\ labels.experience_level = "Mid Level"
        /\ (title = "" /\ location = "") => labels.work_mode = "On-site"

C8_Witness ==
    /\ Classified
    /\ title = ""
    /\ location = ""
    /\ labels = [job_type |-> "Full-time", work_mode |-> "On-site",
                 experience_level |-> "Mid Level"]

JobTypeGroups ==
    << [label |-> "Internship", kws |-> {"intern", "internship", "trainee"}],
       [label |-> "Contract",   kws |-> {"contract", "contractor", "freelance"}],
       [label |-> "Part-time",  kws |-> {"part-time", "part time"}] >>

\* C9: determine_job_type returns the label of the first keyword group, in
\* the order Internship, Contract, Part-time, that has a keyword occurring
\* as a case-insensitive substring of the title, and Full-time when no
\* group matches; a title with both "intern" and "contract" is Internship.
C9_JobTypeFirstGroupWins ==
    Classified =>
        /\ labels.job_type = FirstGroup(title, JobTypeGroups, "Full-time")
        /\ (CIContains(title, "intern") /\ CIContains(title, "contract"))
              => labels.job_type = "Internship"
        /\ title = "Data Analyst Intern" => labels.job_type = "Internship"
        /\ title = "Senior Data Engineer" => labels.job_type = "Full-time"

C9_Witness ==
    /\ Classified
    /\ CIContains(title, "intern")
    /\ CIContains(title, "contract")
    /\ labels.job_type = "Internship"

WorkModeGroups ==
    << [label |-> "Remote", kws |-> {"remote", "work from home", "wfh"}],
       [label |-> "Hybrid", kws |-> {"hybrid"}] >>

\* C10: determine_work_mode returns Remote when title + " " + location,
\* lower-cased, contains remote, work from home or wfh, otherwise Hybrid
\* when it contains hybrid, otherwise On-site; Remote wins over Hybrid and
\* a keyword in the title or in the location alone is enough.
C10_WorkModeCombined ==
    Classified =>
        /\ labels.work_mode
              = FirstGroup(title \o " " \o location, WorkModeGroups, "On-site")
        /\ (CIAny(title, WorkModeGroups[1].kws) \/ CIAny(location, WorkModeGroups[1].kws))
              => labels.work_mode = "Remote"
        /\ (title = "Remote Data Scientist" /\ location = "New York, NY")
              => labels.work_mode = "Remote"
        /\ (title = "Data Analyst" /\ location = "Chicago, IL")
              => labels.work_mode = "On-site"

\* the keyword is in the location only, and Hybrid is present as well
C10_Witness ==
    /\ Classified
    /\ ~CIAny(title, WorkModeGroups[1].kws)
    /\ CIContains(title, "hybrid")
    /\ CIContains(location, "remote")
    /\ labels.work_mode = "Remote"

ExperienceGroups ==
    << [label |-> "Entry Level",  kws |-> {"junior", "entry", "associate", "jr"}],
       [label |-> "Senior Level", kws |-> {"senior", "sr", "lead", "principal"}],
       [label |-> "Management",   kws |-> {"manager", "director", "head"}] >>

\* C11: determine_experience_level returns the label of the first group, in
\* the order Entry Level, Senior Level, Management, that has a keyword in the
\* title (letter case ignored) and Mid Level when none has; so a title with
\* "senior" and no entry-level keyword is Senior Level.
C11_ExperienceFirstGroupWins ==
    Classified =>
        /\ labels.experience_level = FirstGroup(title, ExperienceGroups, "Mid Level")
        /\ (CIContains(title, "senior") /\ ~CIAny(title, ExperienceGroups[1].kws))
              => labels.experience_level = "Senior Level"

\* "senior" together with a management keyword and no entry-level keyword
C11_Witness ==
    /\ Classified
    /\ CIContains(title, "senior")
    /\ CIContains(title, "manager")
    /\ ~CIAny(title, ExperienceGroups[1].kws)
    /\ labels.experience_level = "Senior Level"

----------------------------------------------------------------------------
(* Statements about the record extractors *)

Extracted == mode = "extract" /\ pc = "done"

Cap(src) == IF src = "glassdoor" THEN GlassdoorCap ELSE IndeedCap

\* the element list of the first selector that found something
UsedElems(results) ==
    LET hit == {k \in 1..Len(results) : Len(results[k]) > 0} IN
    IF hit = {} THEN <<>>
    ELSE results[CHOOSE k \in hit : \A h \in hit : k <= h]

\* the title the adapter src reads from element e
TitleOf(src, e) ==
    IF src = "glassdoor" THEN strip(e.text)
    ELSE IF e.attr # None /\ e.attr # "" THEN e.attr
    ELSE strip(e.text)

\* no element of the page raises when read
NoStale(pg) ==
    /\ ~pg.broken
    /\ \A f \in {"job", "loc", "comp"} :
          \A k \in 1..Len(pg[f]) : \A i \in 1..Len(pg[f][k]) : ~pg[f][k][i].stale

BadTitle(t) == t = "N/A" \/ t = "" \/ Len(t) <= 3

\* in-cap indices (from 1) of the title elements whose title passes the filter
PassIdx(src, pg) ==
    LET elems == UsedElems(pg.job) IN
    {i \in 1..Min(Len(elems), Cap(src)) : ~BadTitle(TitleOf(src, elems[i]))}

\* the k-th smallest member of a set of numbers
Nth(S, k) == CHOOSE i \in S : Cardinality({j \in S : j < i}) = k - 1

SpecExampleTitles == << "Data Engineer", "xy", "N/A", "Senior Analyst" >>

TitleSeq(src, pg) ==
    LET elems == UsedElems(pg.job) IN [i \in 1..Len(elems) |-> TitleOf(src, elems[i])]

\* C5: an extractor never emits a record whose job_title is "N/A", empty or
\* of length <= 3, and on a page whose elements can all be read the emitted
\* records are exactly those of the in-cap indices whose title passes this
\* filter, in index order; the four titles of the documentation give two.
C5_TitleFilter ==
    Extracted =>
        /\ \A k \in 1..Len(jobs) : ~BadTitle(jobs[k].job_title)
        /\ NoStale(page) =>
              /\ Len(jobs) = Cardinality(PassIdx(source, page))
              /\ \A k \in 1..Len(jobs) :
                    jobs[k].job_title
                      = TitleOf(source, UsedElems(page.job)[Nth(PassIdx(source, page), k)])
        /\ (NoStale(page) /\ TitleSeq(source, page) = SpecExampleTitles)
              => Len(jobs) = 2

C5_Witness ==
    /\ Extracted
    /\ NoStale(page)
    /\ TitleSeq(source, page) = SpecExampleTitles
    /\ Len(jobs) = 2
    /\ jobs[1].job_title = "Data Engineer"
    /\ jobs[2].job_title = "Senior Analyst"

\* the page cut down to the first n title elements of every selector
TruncPage(pg, n) ==
    [pg EXCEPT !.job = [k \in 1..Len(pg.job) |->
                           SubSeq(pg.job[k], 1, Min(n, Len(pg.job[k])))]]

Adapter(src, pg, cat, t, tick) ==
    IF src = "glassdoor" THEN scrape_glassdoor(pg, cat, t, tick)
    ELSE scrape_indeed(pg, cat, t, tick)

\* C6: scrape_glassdoor returns at most 20 records and scrape_indeed at
\* most 15 per call, however many elements the page has, and the elements
\* after the first 20 (resp. 15) have no influence on the result.
C6_PerAdapterCap ==
    Extracted =>
        /\ Len(jobs) <= Cap(source)
        /\ jobs = Adapter(source, TruncPage(page, Cap(source)), category, now, tickAt)

C6_Witness ==
    /\ Extracted
    /\ source = "glassdoor"
    /\ Len(UsedElems(page.job)) > GlassdoorCap
    /\ Len(jobs) = GlassdoorCap

\* reading what the adapter src needs of index i (from 1) raises
ReadFails(src, pg, i) ==
    \/ UsedElems(pg.job)[i].stale
    \/ /\ src = "glassdoor"
       /\ \E f \in {"loc", "comp"} :
             /\ i <= Len(UsedElems(pg[f]))
             /\ UsedElems(pg[f])[i].stale

\* in-cap indices (from 1) that can be read and whose title passes the filter
LiveIdx(src, pg) ==
    {i \in 1..Min(Len(UsedElems(pg.job)), Cap(src)) :
        ~ReadFails(src, pg, i) /\ ~BadTitle(TitleOf(src, UsedElems(pg.job)[i]))}

\* the index (from 0) that the job_id of a record carries
IdxOfRecord(src, cat, r) ==
    CHOOSE i \in 0..Cap(src) :
        \E t \in {r.scraped_timestamp} : r.job_id = job_id(src, cat, i, t)

\* C21: an extractor returns normally on every page; an element that cannot
\* be read is the only one skipped on its account: the records returned are
\* those of the readable in-cap indices with a valid title, in ascending
\* index order.  A page on which find_elements raises gives no record.
C21_PerElementIsolation ==
    Extracted =>
        /\ page.broken => jobs = <<>>
        /\ ~page.broken =>
              /\ Len(jobs) = Cardinality(LiveIdx(source, page))
              /\ \A k \in 1..Len(jobs) :
                    LET i == Nth(LiveIdx(source, page), k) IN
                    /\ jobs[k].job_title = TitleOf(source, UsedElems(page.job)[i])
                    /\ IdxOfRecord(source, category, jobs[k]) = i - 1

\* a page with an unreadable element between two valid ones, both emitted
C21_Witness ==
    /\ Extracted
    /\ ~page.broken
    /\ \E i \in 1..Min(Len(UsedElems(page.job)), Cap(source)) :
          /\ ReadFails(source, page, i)
          /\ \E a \in LiveIdx(source, page) : a < i
          /\ \E b \in LiveIdx(source, page) : b > i
    /\ Len(jobs) = Cardinality(LiveIdx(source, page))
    /\ Len(jobs) >= 2

\* the fields an adapter looks up, with their candidate selectors
FieldsOf(src) == IF src = "glassdoor" THEN {"job", "loc", "comp"} ELSE {"job"}

SelectorsOf(src, f) ==
    IF f = "loc" THEN location_selectors
    ELSE IF f = "comp" THEN company_selectors
    ELSE IF src = "glassdoor" THEN glassdoor_job_selectors
    ELSE indeed_job_selectors

\* the selectors queried for field f, in the order of the calls
CallsFor(f) ==
    LET idx == {k \in 1..Len(steps) : steps[k].field = f}
    IN  [j \in 1..Cardinality(idx) |-> steps[Nth(idx, j)].selector]

\* the page with, for every field, the list lst(f) as the only result
OnlyLists(pg, lst(_)) ==
    [pg EXCEPT !.job = << lst("job") >>, !.loc = << lst("loc") >>,
               !.comp = << lst("comp") >>]

\* the result of the last selector queried for field f on the current page
LastQueried(f) ==
    IF CallsFor(f) = <<>> THEN <<>> ELSE page[f][Len(CallsFor(f))]

\* C22: for each field the selectors are queried in list order; every
\* selector queried before the last one returned nothing; the last one
\* queried is the first with a non-empty result, or the last of the list
\* when all are empty; the records are built from the lists of the last
\* selectors queried.
C22_FirstMatchWins ==
    (Extracted /\ ~page.broken) =>
        /\ \A f \in FieldsOf(source) :
              LET sels == SelectorsOf(source, f)
                  m == Len(CallsFor(f))
              IN  /\ m \in 1..Len(sels)
                  /\ CallsFor(f) = SubSeq(sels, 1, m)
                  /\ \A j \in 1..(m - 1) : page[f][j] = <<>>
                  /\ page[f][m] = <<>> => m = Len(sels)
        /\ \A k \in 1..Len(steps) : steps[k].field \in FieldsOf(source)
        /\ jobs = Adapter(source, OnlyLists(page, LastQueried), category, now, tickAt)

\* title: the first selector hits and the later ones, not empty, are not
\* queried; location and company: the second selector is the first to hit
C22_Witness ==
    /\ Extracted
    /\ source = "glassdoor"
    /\ ~page.broken
    /\ page.job[1] # <<>> /\ page.job[2] # <<>> /\ page.job[3] # <<>>
    /\ CallsFor("job") = << glassdoor_job_selectors[1] >>
    /\ page.loc[1] = <<>> /\ page.loc[2] # <<>>
    /\ CallsFor("loc") = location_selectors
    /\ page.comp[1] = <<>> /\ page.comp[2] # <<>>
    /\ CallsFor("comp") = company_selectors
    /\ Len(jobs) > 0
    /\ jobs[1].location = strip(page.loc[2][1].text)
    /\ jobs[1].company = strip(page.comp[2][1].text)

\* the page without its location and company elements
TitlesOnly(pg) ==
    [pg EXCEPT !.loc = [k \in 1..Len(pg.loc) |-> <<>>],
               !.comp = [k \in 1..Len(pg.comp) |-> <<>>]]

\* the value scrape_glassdoor stores for field f of index i (from 0)
FieldOrNA(pg, f, i) ==
    IF i < Len(UsedElems(pg[f])) THEN strip(UsedElems(pg[f])[i + 1].text) ELSE "N/A"

\* C23: scrape_glassdoor goes through the in-cap title indices whatever the
\* lengths of the location and company lists: every readable in-cap title
\* that passes the filter gives a record, whose location (company) is "N/A"
\* when its index is at or past the end of the location (company) list and
\* the element's stripped text otherwise; with the location and company
\* lists taken away the call returns at least as many records.
C23_UnequalLengths ==
    (Extracted /\ source = "glassdoor" /\ ~page.broken) =>
        /\ \A i \in LiveIdx("glassdoor", page) :
              \E k \in 1..Len(jobs) :
                  /\ IdxOfRecord("glassdoor", category, jobs[k]) = i - 1
                  /\ jobs[k].location = FieldOrNA(page, "loc", i - 1)
                  /\ jobs[k].company = FieldOrNA(page, "comp", i - 1)
                  /\ i > Len(UsedElems(page.loc)) => jobs[k].location = "N/A"
                  /\ i > Len(UsedElems(page.comp)) => jobs[k].company = "N/A"
        /\ Len(jobs) <= Len(scrape_glassdoor(TitlesOnly(page), category, now, tickAt))
        /\ NoStale(page) =>
              Len(jobs) = Len(scrape_glassdoor(TitlesOnly(page), category, now, tickAt))

\* one location and three companies for four titles: four records, the
\* first with its location, the others "N/A", the last with company "N/A"
C23_Witness ==
    /\ Extracted
    /\ source = "glassdoor"
    /\ NoStale(page)
    /\ Len(UsedElems(page.job)) = 4
    /\ Len(UsedElems(page.loc)) = 1
    /\ Len(UsedElems(page.comp)) = 3
    /\ Len(jobs) = 4
    /\ jobs[1].location # "N/A"
    /\ \A k \in 2..4 : jobs[k].location = "N/A"
    /\ jobs[1].company # "N/A"
    /\ jobs[4].company = "N/A"

\* C26: every record an extractor returns carries the labels the three
\* classifiers give for the record's own job_title and location; a record of
\* scrape_indeed is stored with location "United States" and classified
\* with the empty location, which gives the same work mode.
C26_LabelsFromStoredFields ==
    Extracted =>
        \A k \in 1..Len(jobs) :
            /\ jobs[k].job_type = determine_job_type(jobs[k].job_title)
            /\ jobs[k].work_mode
                  = determine_work_mode(jobs[k].job_title, jobs[k].location)
            /\ jobs[k].experience_level
                  = determine_experience_level(jobs[k].job_title)
            /\ source = "indeed" =>
                  /\ jobs[k].location = "United States"
                  /\ jobs[k].work_mode = determine_work_mode(jobs[k].job_title, "")

\* records of scrape_indeed with different labels, one of them remote
C26_Witness ==
    /\ Extracted
    /\ source = "indeed"
    /\ \E k \in 1..Len(jobs) :
          /\ jobs[k].work_mode = "Remote"
          /\ jobs[k].location = "United States"
    /\ \E k \in 1..Len(jobs) : jobs[k].job_type = "Internship"
    /\ \E k \in 1..Len(jobs) : jobs[k].experience_level = "Senior Level"
    /\ \E k \in 1..Len(jobs) :
          /\ jobs[k].work_mode = "On-site"
          /\ jobs[k].job_type = "Full-time"
          /\ jobs[k].experience_level = "Mid Level"

----------------------------------------------------------------------------
(* Statements about the collector *)

Returned == mode = "collect" /\ pc = "done"

SampleTitles ==
    << "Senior Data Engineer", "Data Scientist - Machine Learning",
       "Business Intelligence Analyst", "Data Warehouse Engineer",
       "Junior Data Analyst" >>

\* the list is the five synthetic sample records and nothing else
IsSampleSet(list) ==
    /\ Len(list) = 5
    /\ \A k \in 1..5 : /\ list[k].source = "sample"
                       /\ list[k].job_title = SampleTitles[k]

AllFetchesFailed == \A k \in 1..Len(fetches) : ~fetches[k].ok

\* C1: a run in which every driver.get raises returns exactly the five
\* sample records, and so does a run in which the driver setup fails.
C1_AllFailGivesSamples ==
    (Returned /\ AllFetchesFailed) => IsSampleSet(result)

C1_Witness ==
    /\ Returned
    /\ driver = "quit"
    /\ Len(fetches) = Len(JOB_SOURCES)
    /\ AllFetchesFailed
    /\ IsSampleSet(result)

\* C2: when the loops end with n < 5 accumulated records the result is those
\* n records, unchanged and in order, followed by the five sample records;
\* with n >= 5 it is exactly the accumulated records, none of them a sample.
C2_PostLoopFallback ==
    [][(mode = "collect" /\ pc = "loop" /\ pc' = "done") =>
          IF Len(all_jobs) < 5
          THEN /\ Len(result') = Len(all_jobs) + 5
               /\ SubSeq(result', 1, Len(all_jobs)) = all_jobs
               /\ IsSampleSet(SubSeq(result', Len(all_jobs) + 1, Len(result')))
          ELSE /\ result' = all_jobs
               /\ \A k \in 1..Len(result') : result'[k].source # "sample"]_vars

C2_Witness ==
    /\ Returned
    /\ Len(result) \in 6..9
    /\ result[1].source # "sample"
    /\ IsSampleSet(SubSeq(result, Len(result) - 4, Len(result)))

\* C3: once the accumulator holds 50 or more records, no further driver.get
\* is issued, for pairs of the same source or of a later one.
C3_GlobalEarlyExit ==
    [][(mode = "collect" /\ Len(all_jobs) >= 50) => fetches' = fetches]_vars

C3_Witness ==
    /\ Returned
    /\ Len(result) >= 50
    /\ Len(fetches) = CategoriesPerSource
    /\ \A k \in 1..Len(result) : result[k].source = "glassdoor"

\* C4: every record of the returned list has a job_title of at least 4
\* characters after trimming and one label of the enumerated set in each of
\* job_type, work_mode and experience_level.
C4_RecordInvariant ==
    Returned =>
        \A k \in 1..Len(result) :
            /\ Len(strip(result[k].job_title)) >= 4
            /\ result[k].job_type \in JobTypes
            /\ result[k].work_mode \in WorkModes
            /\ result[k].experience_level \in ExperienceLevels

\* C7: no two records of the returned list share a job_id.
C7_JobIdUnique ==
    Returned =>
        \A i, j \in 1..Len(result) : i # j => result[i].job_id # result[j].job_id

C7_Witness ==
    /\ Returned
    /\ \E i, j, k \in 1..Len(result) :
          /\ result[i].source = "glassdoor"
          /\ result[j].source = "indeed"
          /\ result[k].source = "sample"

\* C19: each pair is fetched at most once, in iteration order; when the
\* fetch of a pair raises, the accumulator is left as it was and the loop
\* goes on with the next pair.
C19_PairFailurePolicy ==
    [][(mode = "collect" /\ Len(fetches') = Len(fetches) + 1) =>
          LET f == fetches'[Len(fetches')] IN
          /\ f.pair = pair
          /\ \A k \in 1..Len(fetches) : fetches[k].pair < f.pair
          /\ ~f.ok => /\ all_jobs' = all_jobs
                      /\ pc' = "loop"
                      /\ pair' = pair + 1]_vars

\* a failed fetch in the middle of a source, the next pair scraped
C19_Witness ==
    /\ Returned
    /\ \E k \in 1..(Len(fetches) - 1) :
          /\ fetches[k].pair = 1
          /\ ~fetches[k].ok
          /\ fetches[k + 1].pair = 2
          /\ fetches[k + 1].ok
    /\ \E i \in 1..Len(result) : result[i].category = "data_engineer"

\* C20: between any two consecutive fetches the inter-request delay of 5
\* seconds has been slept, whether the earlier fetch succeeded or failed.
C20_DelayBetweenFetches ==
    mode = "collect" =>
        \A k \in 2..Len(fetches) : fetches[k].at - fetches[k - 1].at >= 5

\* C24: whatever pairs fail and whatever the pages hold, scrape_jobs_smart
\* returns between 5 and 64 records; the accumulator never holds more than
\* 64, and fewer than 50 whenever another pair is fetched.
C24_ResultSizeBounds ==
    /\ Returned => (Len(result) >= 5 /\ Len(result) <= 64)
    /\ mode = "collect" =>
          /\ Len(all_jobs) <= 64
          /\ (pc = "loop" /\ pair < LoopOver) => Len(all_jobs) < 50

\* 49 records after the three glassdoor pairs, 15 more from the first indeed
\* pair: the largest result
C24_Witness ==
    /\ Returned
    /\ Len(result) = 64
    /\ Len(fetches) = 4
    /\ result[49].source = "glassdoor"
    /\ result[50].source = "indeed"

\* the number of driver.quit calls made so far
QuitCalls == Cardinality({k \in 1..Len(steps) : steps[k] = "driver.quit"})

\* C25: when scrape_jobs_smart has returned, driver.quit has been called
\* exactly once if setup_chrome_driver succeeded and never if it failed; the
\* call is made on the driver that was set up, in the step that returns,
\* and no fetch is issued in or after that step.
C25_DriverQuitOnce ==
    /\ [](mode = "collect" =>
            /\ QuitCalls <= 1
            /\ pc # "done" => QuitCalls = 0
            /\ Returned => QuitCalls = (IF driver = "none" THEN 0 ELSE 1)
            /\ Returned => driver \in {"none", "quit"}
            /\ driver = "none" => fetches = <<>>)
    /\ [][mode = "collect" =>
            /\ QuitCalls' > QuitCalls =>
                  (driver = "up" /\ driver' = "quit" /\ pc' = "done"
                     /\ fetches' = fetches)
            /\ fetches' # fetches => (driver = "up" /\ QuitCalls' = 0)
            /\ (pc = "start" /\ pc' = "done") => (driver' = "none" /\ QuitCalls' = 0)]_vars

\* early exit at the threshold after a failed pair: one quit, after the
\* last fetch
C25_Witness ==
    /\ Returned
    /\ driver = "quit"
    /\ QuitCalls = 1
    /\ Len(result) >= 50
    /\ \E k \in 1..Len(fetches) : ~fetches[k].ok
    /\ Len(fetches) < Len(JOB_SOURCES)

----------------------------------------------------------------------------
(* Statements about the aggregator *)

Aggregated == mode = "aggregate" /\ pc = "done"

GroupKeys ==
    {"jobs_by_category", "jobs_by_type", "jobs_by_work_mode",
     "jobs_by_experience", "top_companies", "sources"}

RECURSIVE SumOver(_, _)
\* sum of the counts d[k] for k in keys
SumOver(d, keys) ==
    IF keys = {} THEN 0
    ELSE LET k == CHOOSE x \in keys : TRUE
         IN  d[k] + SumOver(d, keys \ {k})

SumCounts(d) == SumOver(d, DOMAIN d)

\* C12 as stated: on the empty list the summary has total_jobs = 0 and its
\* group mappings are present and empty.
C12_EmptyGivesZeroSummary ==
    (Aggregated /\ jobs = <<>>) =>
        /\ "total_jobs" \in DOMAIN analytics
        /\ analytics["total_jobs"] = 0
        /\ \A g \in GroupKeys : g \in DOMAIN analytics /\ DOMAIN analytics[g] = {}

\* C12 as amended: on the empty list both aggregators return, without
\* raising, the empty dict: total_jobs and the group mappings are absent, and
\* a reader that uses .get with the defaults 0 and {} sees total 0 and empty
\* mappings.
C12_EmptyGivesEmptyDict ==
    (Aggregated /\ jobs = <<>>) =>
        /\ DOMAIN analytics = {}
        /\ Get(analytics, "total_jobs", 0) = 0
        /\ \A g \in GroupKeys : DOMAIN Get(analytics, g, EmptyDict) = {}

C12_Witness ==
    /\ Aggregated
    /\ jobs = <<>>
    /\ steps = <<"generate_analytics">>
    /\ analytics = EmptyDict

\* C13: for every input list the counts of jobs_by_category sum to the number
\* of records, which is total_jobs (both read with .get defaults, so that the
\* empty dict of the empty list counts as 0 and no categories).
C13_CategoryCountsSumToTotal ==
    Aggregated =>
        /\ SumCounts(Get(analytics, "jobs_by_category", EmptyDict)) = Len(jobs)
        /\ Get(analytics, "total_jobs", 0) = Len(jobs)
        /\ jobs # <<>> => /\ "jobs_by_category" \in DOMAIN analytics
                          /\ SumCounts(analytics["jobs_by_category"])
                                = analytics["total_jobs"]

\* several records of one category and one of another
C13_Witness ==
    /\ Aggregated
    /\ Len(jobs) = 3
    /\ analytics["total_jobs"] = 3
    /\ \E c1, c2 \in DOMAIN analytics["jobs_by_category"] :
          /\ analytics["jobs_by_category"][c1] = 2
          /\ analytics["jobs_by_category"][c2] = 1

\* C14: the company table of both aggregators has no key "N/A".
C14_NoNACompany ==
    Aggregated => "N/A" \notin DOMAIN Get(analytics, "top_companies", EmptyDict)

\* C15: the five sample records give jobs_by_work_mode = {Remote: 2,
\* Hybrid: 2, On-site: 1} and total_jobs = 5.
C15_SampleWorkModes ==
    (Aggregated /\ IsSampleSet(jobs)) =>
        /\ analytics["total_jobs"] = 5
        /\ DOMAIN analytics["jobs_by_work_mode"] = {"Remote", "Hybrid", "On-site"}
        /\ analytics["jobs_by_work_mode"]["Remote"] = 2
        /\ analytics["jobs_by_work_mode"]["Hybrid"] = 2
        /\ analytics["jobs_by_work_mode"]["On-site"] = 1

C15_Witness ==
    /\ Aggregated
    /\ IsSampleSet(jobs)
    /\ steps = <<"generate_analytics">>
    /\ analytics["total_jobs"] = 5
    /\ analytics["jobs_by_work_mode"]["On-site"] = 1

----------------------------------------------------------------------------
(* Statements about run_production_pipeline *)

InPipeline == mode = "pipeline"

Entered(step) == \E k \in 1..Len(steps) : steps[k] = step

AllSteps == << "makedirs", "scrape", "csv", "snowflake", "analytics", "email", "summary" >>

\* C16: no exception leaves run_production_pipeline, whichever step fails
\* (directory creation, scraping, CSV write, warehouse save, analytics,
\* email): it returns a boolean.
C16_NeverRaises ==
    InPipeline =>
        /\ outcome # "raised"
        /\ pc = "done" => outcome \in BOOLEAN

\* C17: the CSV write is complete before a sink is attempted, and a failed
\* warehouse save or email send only gives a False flag: the CSV file stays
\* and analytics, email and summary are still executed.
C17_SinkFailureContained ==
    InPipeline =>
        /\ \A k \in 1..Len(steps) :
              steps[k] \in {"snowflake", "email"} =>
                  /\ csv_file
                  /\ \E j \in 1..(k - 1) : steps[j] = "csv"
        /\ (Entered("snowflake") /\ pc = "analytics") => outcome = "running"
        /\ (Entered("email") /\ pc = "summary") => outcome = "running"
        /\ (pc = "done" /\ Entered("snowflake") /\ ~Entered("raise:analytics")) =>
              /\ steps = AllSteps
              /\ csv_file
              /\ outcome \in BOOLEAN

\* both sinks are configured, both fail, every step is executed
C17_Witness ==
    /\ InPipeline
    /\ pc = "done"
    /\ env.snowflake
    /\ env.sender_email /\ env.sender_password /\ env.recipient_email
    /\ contacts = {"snowflake", "smtp"}
    /\ ~snowflake_success
    /\ ~email_success
    /\ csv_file
    /\ steps = AllSteps

\* C18: a sink whose configuration is absent is skipped: it reports False
\* without its external service being called, and the other steps are still
\* executed.
C18_AbsentConfigSkipsSink ==
    InPipeline =>
        /\ (Entered("email") /\ (~env.sender_email \/ ~env.sender_password
                                    \/ ~env.recipient_email)) =>
              /\ "smtp" \notin contacts
              /\ ~email_success
        /\ (~env.snowflake /\ Entered("snowflake")) =>
              /\ "snowflake" \notin contacts
              /\ ~snowflake_success
        /\ (pc = "done" /\ Entered("snowflake") /\ ~Entered("raise:analytics")) =>
              steps = AllSteps


\* run_production_pipeline has returned, and returned v
ReturnedValue(v) ==
    /\ pc = "done"
    /\ ~Entered("raise:makedirs")
    /\ outcome = v

\* C27: run_production_pipeline returns True exactly when the run reached
\* the final summary and save_to_snowflake returned True; whether the email
\* was sent, failed or was skipped for missing configuration has no part in
\* it.  A run that did not reach the summary and did not raise returns False.
C27_ReturnValue ==
    (InPipeline /\ pc = "done") =>
        /\ ReturnedValue(TRUE) <=> (Entered("summary") /\ snowflake_success)
        /\ (~Entered("summary") /\ ~Entered("raise:makedirs")) => ReturnedValue(FALSE)
        /\ (Entered("summary") /\ ~snowflake_success) => ReturnedValue(FALSE)

\* True is returned although the email send failed
C27_Witness ==
    /\ InPipeline
    /\ pc = "done"
    /\ Entered("summary")
    /\ snowflake_success
    /\ "smtp" \in contacts
    /\ ~email_success
    /\ ReturnedValue(TRUE)

====
